---------------------------- MODULE Spec2Model ----------------------------
(***************************************************************************)
(* Model of rich_dictionary_cli/cli.py: one invocation of `main`, which    *)
(* calls fetch_word_data (one HTTP GET, five except-arms) and then either  *)
(* display_word_data or the unexpected-format arm.                         *)
(*                                                                         *)
(* JSON values are tagged tuples <<tag, payload>>; strings are sequences   *)
(* of one-character strings so that upper() and capitalize() are computed. *)
(* Printed items and the issued requests are recorded in `console` and     *)
(* `requests`.                                                             *)
(***************************************************************************)
EXTENDS Integers, Sequences, FiniteSets, TLC

VARIABLES pc, word, status, failure, data, console, requests, calls, ret,
          ei, mi, meanings

vars == <<pc, word, status, failure, data, console, requests, calls, ret,
          ei, mi, meanings>>

(***************************************************************************)
(* Bounds.                                                                 *)
(***************************************************************************)
\* total number of entries + meanings + definitions in a generated body
MaxNodes == 5

(***************************************************************************)
(* JSON values as Python sees them after response.json().                  *)
(***************************************************************************)
Null == <<"null">>
Missing == <<"missing">>
Unset == <<"unset">>
Num(n) == <<"num", n>>
Str(s) == <<"str", s>>
List(l) == <<"list", l>>
Obj(r) == <<"obj", r>>

Tag(v) == v[1]
Val(v) == v[2]
IsNone(v) == Tag(v) = "null"
IsStr(v) == Tag(v) = "str"
IsList(v) == Tag(v) = "list"
IsObj(v) == Tag(v) = "obj"

WordEntry(phonetic, mngs) == Obj([phonetic |-> phonetic, meanings |-> mngs])
Meaning(partOfSpeech, definitions) ==
    Obj([partOfSpeech |-> partOfSpeech, definitions |-> definitions])
Definition(definition, example) ==
    Obj([definition |-> definition, example |-> example])

\* keys of a dict that are actually present
Keys(o) == {k \in DOMAIN Val(o) : Val(o)[k] # Missing}

\* Python truth value of a decoded JSON value
Truthy(v) ==
    CASE Tag(v) = "null" -> FALSE
      [] Tag(v) = "num" -> Val(v) # 0
      [] Tag(v) = "str" -> Len(Val(v)) > 0
      [] Tag(v) = "list" -> Len(Val(v)) > 0
      [] Tag(v) = "obj" -> Keys(v) # {}

\* dict.get(key, default); the caller has checked IsObj(o)
Get(o, key, default) ==
    IF key \in Keys(o) THEN Val(o)[key] ELSE default

RECURSIVE SetToSeq(_)
SetToSeq(S) ==
    IF S = {} THEN <<>>
    ELSE LET x == CHOOSE y \in S : TRUE IN <<x>> \o SetToSeq(S \ {x})

\* can a `for` loop iterate over the value
Iterable(v) == Tag(v) \in {"list", "str", "obj"}

\* a loop that visits a list from its end
IterItems_Reversed(v) ==
    CASE Tag(v) = "list" -> [i \in 1..Len(Val(v)) |-> Val(v)[Len(Val(v)) + 1 - i]]
      [] Tag(v) = "str" -> [i \in 1..Len(Val(v)) |-> Str(<<Val(v)[i]>>)]
      [] Tag(v) = "obj" -> [i \in 1..Cardinality(Keys(v)) |->
                               Str(<<SetToSeq(Keys(v))[i]>>)]

\* the items a `for` loop visits, in order
IterItems(v) ==
    CASE Tag(v) = "list" -> Val(v)
      [] Tag(v) = "str" -> [i \in 1..Len(Val(v)) |-> Str(<<Val(v)[i]>>)]
      [] Tag(v) = "obj" -> [i \in 1..Cardinality(Keys(v)) |->
                               Str(<<SetToSeq(Keys(v))[i]>>)]

(***************************************************************************)
(* Strings: str.upper() and str.capitalize().                              *)
(***************************************************************************)
Lowers == <<"a", "b", "c", "d", "e", "f", "g", "h", "i", "j", "k", "l", "m",
            "n", "o", "p", "q", "r", "s", "t", "u", "v", "w", "x", "y", "z">>
Uppers == <<"A", "B", "C", "D", "E", "F", "G", "H", "I", "J", "K", "L", "M",
            "N", "O", "P", "Q", "R", "S", "T", "U", "V", "W", "X", "Y", "Z">>

UpperOf(c) ==
    IF \E i \in 1..Len(Lowers) : Lowers[i] = c
    THEN Uppers[CHOOSE i \in 1..Len(Lowers) : Lowers[i] = c]
    ELSE c

LowerOf(c) ==
    IF \E i \in 1..Len(Uppers) : Uppers[i] = c
    THEN Lowers[CHOOSE i \in 1..Len(Uppers) : Uppers[i] = c]
    ELSE c

Upper(s) == [i \in 1..Len(s) |-> UpperOf(s[i])]

Capitalize(s) ==
    [i \in 1..Len(s) |-> IF i = 1 THEN UpperOf(s[i]) ELSE LowerOf(s[i])]

\* default of meaning.get("partOfSpeech", ...); the a-umlaut of the source
\* is written "a" here, upper() and capitalize() leave the rest untouched
DefaultPartOfSpeech ==
    <<"o", "k", "a", "n", "d", " ", "o", "r", "d", "k", "l", "a", "s", "s">>

\* default of definition_data.get("definition", ...)
DefaultDefinition == <<"Ingen definition tillganglig.">>


(***************************************************************************)
(* Inputs: the words, the status codes and the decoded bodies the HTTP     *)
(* client may produce.                                                     *)
(***************************************************************************)
Words == {<<"c", "a", "t">>, <<"D", "o">>}

Statuses == {200, 204, 301, 404, 500}

DefA == Definition(Str(<<"a">>), Str(<<"e">>))
DefB == Definition(Str(<<"b">>), Missing)
WellDefinitions == {DefA, DefB}
WellPartsOfSpeech == {Str(<<"n", "O", "u", "n">>), Str(<<"v", "e", "r", "b">>)}
WellPhonetics == {Missing, Str(<<"k", "a", "t">>)}

RECURSIVE SeqsOfLen(_, _)
SeqsOfLen(S, n) ==
    IF n = 0 THEN {<<>>}
    ELSE {<<x>> \o s : x \in S, s \in SeqsOfLen(S, n - 1)}

\* meanings made of exactly n nodes (the meaning and n - 1 definitions)
MeaningsOfSize(n) ==
    {Meaning(p, List(l)) : p \in WellPartsOfSpeech,
                           l \in SeqsOfLen(WellDefinitions, n - 1)}

RECURSIVE MeaningSeqs(_)
MeaningSeqs(n) ==
    IF n = 0 THEN {<<>>}
    ELSE UNION {{<<m>> \o r : m \in MeaningsOfSize(k), r \in MeaningSeqs(n - k)}
                : k \in 1..n}

\* entries made of exactly n nodes
EntriesOfSize(n) ==
    {WordEntry(ph, List(ml)) : ph \in WellPhonetics, ml \in MeaningSeqs(n - 1)}

RECURSIVE EntrySeqs(_)
EntrySeqs(n) ==
    IF n = 0 THEN {<<>>}
    ELSE UNION {{<<e>> \o r : e \in EntriesOfSize(k), r \in EntrySeqs(n - k)}
                : k \in 1..n}

\* bodies of the documented shape, the empty array included
WellBodies == {List(l) : l \in UNION {EntrySeqs(n) : n \in 0..MaxNodes}}

NounWith(definitions) == Meaning(Str(<<"n", "O", "u", "n">>), definitions)
EntryWith(mngs) == WordEntry(Missing, List(mngs))

\* entries with absent, null or blank optional fields
SparseEntries ==
    { WordEntry(Null, List(<<NounWith(List(<<DefA>>))>>)),
      WordEntry(Str(<<>>), List(<<NounWith(List(<<DefB>>))>>)),
      WordEntry(Str(<<"k", "a", "t">>), Missing),
      WordEntry(Missing, Missing),
      EntryWith(<<Meaning(Missing, List(<<DefA, DefB>>))>>),
      EntryWith(<<NounWith(Missing), NounWith(List(<<DefB>>))>>),
      EntryWith(<<NounWith(Null), NounWith(List(<<DefA>>))>>),
      EntryWith(<<Meaning(Missing, Missing)>>),
      EntryWith(<<Meaning(Num(1), List(<<>>))>>),
      EntryWith(<<NounWith(Num(0))>>),
      EntryWith(<<NounWith(List(<<Definition(Missing, Missing), DefA>>))>>),
      EntryWith(<<NounWith(List(<<Definition(Str(<<"a">>), Null)>>))>>),
      EntryWith(<<NounWith(List(<<Definition(Str(<<"a">>), Str(<<>>)), DefA>>))>>),
      EntryWith(<<NounWith(List(<<Definition(Str(<<>>), Str(<<"e">>))>>))>>),
      EntryWith(<<NounWith(List(<<Definition(Str(<<"a">>), Num(1))>>))>>) }

\* elements that are not objects, and objects with wrongly typed fields
MalformedEntries ==
    { Num(1),
      Null,
      Str(<<"a">>),
      List(<<>>),
      WordEntry(Num(1), List(<<>>)),
      WordEntry(List(<<Str(<<"k">>)>>), List(<<>>)),
      WordEntry(Missing, Null),
      WordEntry(Missing, Num(1)),
      WordEntry(Missing, Str(<<"a", "b">>)),
      WordEntry(Missing, NounWith(List(<<DefA>>))),
      EntryWith(<<Num(1)>>),
      EntryWith(<<NounWith(List(<<DefA>>)), Null>>),
      EntryWith(<<Meaning(Num(1), List(<<DefA>>))>>),
      EntryWith(<<Meaning(Null, List(<<DefA>>))>>),
      EntryWith(<<NounWith(Num(1))>>),
      EntryWith(<<NounWith(Str(<<"a">>))>>),
      EntryWith(<<NounWith(DefA)>>),
      EntryWith(<<NounWith(List(<<Num(1)>>))>>),
      EntryWith(<<NounWith(List(<<DefA, Str(<<"a">>)>>))>>),
      EntryWith(<<NounWith(List(<<Definition(Num(1), Missing)>>))>>),
      EntryWith(<<NounWith(List(<<Definition(Null, Str(<<"e">>))>>))>>) }

FirstEntry == WordEntry(Str(<<"k", "a", "t">>), List(<<NounWith(List(<<DefB>>))>>))

OddBodies ==
    {List(<<e>>) : e \in SparseEntries \cup MalformedEntries}
    \cup {List(<<FirstEntry, e>>) : e \in SparseEntries \cup MalformedEntries}
    \cup {List(<<e, FirstEntry>>) : e \in SparseEntries}

\* a fixture with two entries, two meanings each, two definitions each
FixtureNoun == NounWith(List(<<DefA, DefB>>))
FixtureVerb == Meaning(Str(<<"v", "e", "r", "b">>), List(<<DefB, DefA>>))
FixtureOne == WordEntry(Str(<<"k", "a", "t">>), List(<<FixtureNoun, FixtureVerb>>))
FixtureTwo == WordEntry(Missing, List(<<FixtureVerb, FixtureNoun>>))
FixtureBodies == {List(<<FixtureOne, FixtureTwo>>), List(<<FixtureTwo, FixtureOne>>)}

\* valid JSON that is not an array
NonArrayBodies == {Null, Num(1), Num(0), Str(<<"a">>), FirstEntry}

\* what response.json() can return
Bodies == WellBodies \cup OddBodies \cup FixtureBodies \cup NonArrayBodies


(***************************************************************************)
(* Printed items.                                                          *)
(***************************************************************************)
NotFoundMessage(w) == <<"error", "NotFound", w>>
HttpErrorMessage(s) == <<"error", "HttpError", s>>
NetworkErrorMessage == <<"error", "NetworkError">>
JsonErrorMessage == <<"error", "JsonError">>
UnexpectedErrorMessage == <<"error", "UnexpectedError">>
UnexpectedFormatMessage(w) == <<"error", "UnexpectedFormat", w>>
HeaderPanel(w) == <<"header", <<"Dictionary search">>, Upper(w)>>
PhoneticLine(p) == <<"phonetic", p>>
MeaningPanel(title, body) == <<"panel", title, body>>

IsError(item) == item[1] = "error"
IsPanel(item) == item[1] = "panel"
IsHeader(item) == item[1] = "header"
IsPhonetic(item) == item[1] = "phonetic"

Url(w) == <<"https://api.dictionaryapi.dev/api/v2/entries/en/">> \o w

(***************************************************************************)
(* fetch_word_data                                                         *)
(***************************************************************************)
Init ==
    /\ pc = "client"
    /\ word \in Words
    /\ status = 0
    /\ failure = "none"
    /\ data = Unset
    /\ console = <<>>
    /\ requests = <<>>
    /\ calls = <<>>
    /\ ret = {}
    /\ ei = 0
    /\ mi = 0
    /\ meanings = <<>>

\* httpx.Client(timeout=5.0): the client is built, or building it fails
ClientConstruct ==
    /\ pc = "client"
    /\ \/ pc' = "get" /\ failure' = failure
       \/ pc' = "except" /\ failure' = "Exception"
    /\ UNCHANGED <<word, status, data, console, requests, calls, ret,
                   ei, mi, meanings>>

\* client.get(url): a response with some status, or a failed request
ClientGet ==
    /\ pc = "get"
    /\ requests' = Append(requests, Url(word))
    /\ \/ \E s \in Statuses :
             /\ status' = s
             /\ pc' = "raise_for_status"
             /\ failure' = failure
       \/ /\ pc' = "except"
          /\ failure' \in {"RequestError", "Exception"}
          /\ status' = status
    /\ UNCHANGED <<word, data, console, calls, ret, ei, mi, meanings>>

\* the statuses response.raise_for_status() lets through
IsSuccess(s) == s \in 200..299

RaiseForStatus ==
    /\ pc = "raise_for_status"
    /\ IF IsSuccess(status)
       THEN pc' = "json" /\ failure' = failure
       ELSE pc' = "except" /\ failure' = "HTTPStatusError"
    /\ UNCHANGED <<word, status, data, console, requests, calls, ret,
                   ei, mi, meanings>>

\* return response.json(): the decoded body, or the body is not JSON
ResponseJson ==
    /\ pc = "json"
    /\ \/ \E body \in Bodies :
             /\ data' = body
             /\ pc' = "match"
             /\ failure' = failure
       \/ /\ pc' = "except"
          /\ failure' = "JSONDecodeError"
          /\ data' = data
    /\ UNCHANGED <<word, status, console, requests, calls, ret, ei, mi, meanings>>

\* the two branches of the HTTPStatusError arm exchanged
StatusMessage_Swapped(s, w) ==
    IF s = 404 THEN HttpErrorMessage(s) ELSE NotFoundMessage(w)

\* the message of the HTTPStatusError arm
StatusMessage(s, w) ==
    IF s = 404 THEN NotFoundMessage(w) ELSE HttpErrorMessage(s)

HandleHTTPStatusError ==
    /\ pc = "except"
    /\ failure = "HTTPStatusError"
    /\ console' = Append(console, StatusMessage(status, word))
    /\ data' = Null
    /\ pc' = "match"
    /\ UNCHANGED <<word, status, failure, requests, calls, ret, ei, mi, meanings>>

\* a RequestError arm that tries the request once more
HandleRequestError_Retry ==
    /\ pc = "except"
    /\ failure = "RequestError"
    /\ IF Len(requests) < 2
       THEN /\ pc' = "get"
            /\ failure' = "none"
            /\ UNCHANGED <<console, data>>
       ELSE /\ console' = Append(console, NetworkErrorMessage)
            /\ data' = Null
            /\ pc' = "match"
            /\ failure' = failure
    /\ UNCHANGED <<word, status, requests, calls, ret, ei, mi, meanings>>

HandleRequestError ==
    /\ pc = "except"
    /\ failure = "RequestError"
    /\ console' = Append(console, NetworkErrorMessage)
    /\ data' = Null
    /\ pc' = "match"
    /\ UNCHANGED <<word, status, failure, requests, calls, ret, ei, mi, meanings>>

HandleJSONDecodeError ==
    /\ pc = "except"
    /\ failure = "JSONDecodeError"
    /\ console' = Append(console, JsonErrorMessage)
    /\ data' = Null
    /\ pc' = "match"
    /\ UNCHANGED <<word, status, failure, requests, calls, ret, ei, mi, meanings>>

\* a catch-all arm that lets the exception through
HandleException_Reraise ==
    /\ pc = "except"
    /\ failure \notin {"HTTPStatusError", "RequestError", "JSONDecodeError"}
    /\ pc' = "raised"
    /\ UNCHANGED <<word, status, failure, data, console, requests, calls, ret,
                   ei, mi, meanings>>

HandleException ==
    /\ pc = "except"
    /\ failure \notin {"HTTPStatusError", "RequestError", "JSONDecodeError"}
    /\ console' = Append(console, UnexpectedErrorMessage)
    /\ data' = Null
    /\ pc' = "match"
    /\ UNCHANGED <<word, status, failure, requests, calls, ret, ei, mi, meanings>>

(***************************************************************************)
(* main: the match statement                                               *)
(***************************************************************************)
MainCaseNone ==
    /\ pc = "match"
    /\ IsNone(data)
    /\ ret' = {1}
    /\ pc' = "done"
    /\ UNCHANGED <<word, status, failure, data, console, requests, calls,
                   ei, mi, meanings>>

MainCaseList ==
    /\ pc = "match"
    /\ IsList(data) /\ Truthy(data)
    /\ calls' = Append(calls, <<word, data>>)
    /\ pc' = "header"
    /\ UNCHANGED <<word, status, failure, data, console, requests, ret,
                   ei, mi, meanings>>

MainCaseOther ==
    /\ pc = "match"
    /\ ~IsNone(data)
    /\ ~(IsList(data) /\ Truthy(data))
    /\ console' = Append(console, UnexpectedFormatMessage(word))
    /\ ret' = {1}
    /\ pc' = "done"
    /\ UNCHANGED <<word, status, failure, data, requests, calls, ei, mi, meanings>>


(***************************************************************************)
(* display_word_data                                                       *)
(***************************************************************************)
\* str(value) as an f-string formats it
Format(v) ==
    CASE Tag(v) = "str" -> Val(v)
      [] Tag(v) = "num" -> <<ToString(Val(v))>>
      [] OTHER -> <<"repr", v>>

Quote(v) == <<"\"">> \o Format(v) \o <<"\"">>

Heading(part_of_speech) == <<"heading", Capitalize(Val(part_of_speech))>>

\* what one definition appends to the panel content, numbered i
DefinitionSegments(definition_data, i) ==
    LET definition == Get(definition_data, "definition", Str(DefaultDefinition))
        example == Get(definition_data, "example", Null)
    IN  <<<<"number", i>>, <<"text", Val(definition)>>>>
        \o (IF Truthy(example) THEN <<<<"example", Quote(example)>>>> ELSE <<>>)

\* enumerate(items, i): the segments of all definitions, in order
RECURSIVE EnumerateFrom(_, _)
EnumerateFrom(items, i) ==
    IF items = <<>> THEN <<>>
    ELSE DefinitionSegments(Head(items), i) \o EnumerateFrom(Tail(items), i + 1)

\* enumerate() left at its default start of 0
PanelContent_FromZero(part_of_speech, definitions) ==
    <<Heading(part_of_speech)>> \o EnumerateFrom(IterItems(definitions), 0)

\* the Text buffer built for one meaning
PanelContent(part_of_speech, definitions) ==
    <<Heading(part_of_speech)>> \o EnumerateFrom(IterItems(definitions), 1)

\* building the panel raises nothing: capitalize() needs a str, enumerate()
\* an iterable, .get() a dict, and Text.append() a str
Renders(part_of_speech, definitions) ==
    /\ IsStr(part_of_speech)
    /\ Iterable(definitions)
    /\ \A k \in 1..Len(IterItems(definitions)) :
          LET d == IterItems(definitions)[k]
          IN  /\ IsObj(d)
              /\ IsStr(Get(d, "definition", Str(DefaultDefinition)))

\* a panel for every meaning, with or without definitions
HasDefinitions_Always(definitions) == TRUE

\* `if definitions:`
HasDefinitions(definitions) == Truthy(definitions)

DisplayHeader ==
    /\ pc = "header"
    /\ console' = Append(console, HeaderPanel(word))
    /\ ei' = 1
    /\ pc' = "entry"
    /\ UNCHANGED <<word, status, failure, data, requests, calls, ret, mi, meanings>>

\* one turn of `for entry in data` up to the start of the inner loop
DisplayEntry ==
    /\ pc = "entry"
    /\ ei <= Len(Val(data))
    /\ LET entry == Val(data)[ei]
       IN  IF ~IsObj(entry)
           THEN /\ pc' = "raised"
                /\ UNCHANGED <<console, mi, meanings>>
           ELSE LET phonetic == Get(entry, "phonetic", Null)
                    mngs == Get(entry, "meanings", List(<<>>))
                IN  IF Truthy(phonetic) /\ ~IsStr(phonetic)
                    THEN /\ pc' = "raised"
                         /\ UNCHANGED <<console, mi, meanings>>
                    ELSE /\ console' = IF Truthy(phonetic)
                                       THEN Append(console, PhoneticLine(Val(phonetic)))
                                       ELSE console
                         /\ IF Iterable(mngs)
                            THEN /\ meanings' = IterItems(mngs)
                                 /\ mi' = 1
                                 /\ pc' = "meaning"
                            ELSE /\ pc' = "raised"
                                 /\ UNCHANGED <<mi, meanings>>
    /\ UNCHANGED <<word, status, failure, data, requests, calls, ret, ei>>

\* one turn of `for meaning in entry.get("meanings", [])`
DisplayMeaning ==
    /\ pc = "meaning"
    /\ mi <= Len(meanings)
    /\ LET meaning == meanings[mi]
       IN  IF ~IsObj(meaning)
           THEN /\ pc' = "raised"
                /\ UNCHANGED <<console, mi>>
           ELSE LET part_of_speech == Get(meaning, "partOfSpeech",
                                          Str(DefaultPartOfSpeech))
                    definitions == Get(meaning, "definitions", List(<<>>))
                IN  IF ~HasDefinitions(definitions)
                    THEN /\ mi' = mi + 1
                         /\ UNCHANGED <<console, pc>>
                    ELSE IF Renders(part_of_speech, definitions)
                    THEN /\ console' = Append(console,
                               MeaningPanel(Capitalize(Val(part_of_speech)),
                                   PanelContent(part_of_speech, definitions)))
                         /\ mi' = mi + 1
                         /\ pc' = pc
                    ELSE /\ pc' = "raised"
                         /\ UNCHANGED <<console, mi>>
    /\ UNCHANGED <<word, status, failure, data, requests, calls, ret, ei, meanings>>

\* the inner loop is exhausted: next entry
DisplayNextEntry ==
    /\ pc = "meaning"
    /\ mi > Len(meanings)
    /\ ei' = ei + 1
    /\ pc' = "entry"
    /\ UNCHANGED <<word, status, failure, data, console, requests, calls, ret,
                   mi, meanings>>

\* the outer loop is exhausted: display_word_data returns and main returns 0
DisplayReturn ==
    /\ pc = "entry"
    /\ ei > Len(Val(data))
    /\ ret' = {0}
    /\ pc' = "done"
    /\ UNCHANGED <<word, status, failure, data, console, requests, calls,
                   ei, mi, meanings>>

Next ==
    \/ ClientConstruct
    \/ ClientGet
    \/ RaiseForStatus
    \/ ResponseJson
    \/ HandleHTTPStatusError
    \/ HandleRequestError
    \/ HandleJSONDecodeError
    \/ HandleException
    \/ MainCaseNone
    \/ MainCaseList
    \/ MainCaseOther
    \/ DisplayHeader
    \/ DisplayEntry
    \/ DisplayMeaning
    \/ DisplayNextEntry
    \/ DisplayReturn

Spec == Init /\ [][Next]_vars

Terminated == pc \in {"done", "raised"}


(***************************************************************************)
(* Vocabulary of the properties.                                           *)
(***************************************************************************)
Errors == SelectSeq(console, IsError)
Panels == SelectSeq(console, IsPanel)
Headers == SelectSeq(console, IsHeader)
PhoneticLines == SelectSeq(console, IsPhonetic)

NonEmptyList(v) == IsList(v) /\ Len(Val(v)) > 0
Displayed == pc = "done" /\ ret = {0}

\* the message each failure class is documented to produce
DocumentedMessage ==
    CASE failure = "HTTPStatusError" /\ status = 404 ->
             <<"error", "NotFound", word>>
      [] failure = "HTTPStatusError" /\ status # 404 ->
             <<"error", "HttpError", status>>
      [] failure = "RequestError" -> <<"error", "NetworkError">>
      [] failure = "JSONDecodeError" -> <<"error", "JsonError">>
      [] OTHER -> <<"error", "UnexpectedError">>

\* C1: main has exactly three outcomes, decided by the value fetch_word_data
\* hands back: None gives exit code 1 and no Presenter call; a non-empty list
\* gives one Presenter call with that list and exit code 0; anything else
\* gives the unexpected-format message, no Presenter call and exit code 1.
C1_ThreeOutcomes ==
    Terminated =>
        /\ IsNone(data) => ret = {1} /\ calls = <<>>
        /\ NonEmptyList(data) => calls = <<<<word, data>>>> /\ ret = {0}
        /\ (~IsNone(data) /\ ~NonEmptyList(data)) =>
              /\ console = <<<<"error", "UnexpectedFormat", word>>>>
              /\ calls = <<>>
              /\ ret = {1}

\* C2: once fetch_word_data has handled a failure, the console holds exactly
\* the one message documented for that failure class (404: not found with the
\* word; other status s: HTTP error with s; transport: network error; invalid
\* JSON: JSON error; anything else: unexpected error) and the result is None.
C2_OneMessagePerFailureClass ==
    (failure # "none" /\ pc # "except") =>
        /\ console = <<DocumentedMessage>>
        /\ IsNone(data)

C2_Witness ==
    /\ pc = "done"
    /\ failure = "HTTPStatusError"
    /\ status = 500
    /\ console = <<<<"error", "HttpError", 500>>>>

\* C3: whenever main ends with exit code 1, exactly one error message has
\* been printed.
C3_ExitOneHasOneMessage ==
    (pc = "done" /\ ret = {1}) => Len(Errors) = 1

\* C4: fetch_word_data never raises past its boundary: whatever the HTTP
\* client does, control reaches main's match statement with the decoded body
\* or None, every failure yields None, and an exception can only leave main
\* from inside the Presenter.
C4_FetchNeverRaises ==
    /\ pc = "raised" => calls # <<>>
    /\ (failure # "none" /\ pc # "except") => IsNone(data)
    /\ pc \in {"match", "header", "entry", "meaning", "done", "raised"} =>
          /\ data # Unset
          /\ failure = "none" => (Len(requests) = 1 /\ status \in 200..299)

C4_Witness ==
    /\ pc = "done"
    /\ failure = "Exception"
    /\ requests = <<>>
    /\ IsNone(data)
    /\ ret = {1}

\* C5: for every body that decodes to a non-empty array, whatever the shape
\* of its elements, main completes and no exception escapes from the
\* Presenter.
C5_NoExceptionFromPresenter ==
    NonEmptyList(data) => pc # "raised"

\* C6 (as stated): every invocation issues exactly one GET, and the GET
\* precedes every printed item.
C6_ExactlyOneGet ==
    /\ Terminated => Len(requests) = 1
    /\ console # <<>> => Len(requests) = 1

\* C6 (amended): every invocation issues at most one GET and never a second
\* one; it issues exactly one unless building the client failed, in which
\* case nothing but the unexpected-error message is printed and the exit
\* code is 1; a GET that is issued precedes every printed item.
C6_AtMostOneGet ==
    /\ Len(requests) <= 1
    /\ \A i \in 1..Len(requests) : requests[i] = Url(word)
    /\ (Terminated \/ console # <<>>) =>
          \/ Len(requests) = 1
          \/ /\ failure = "Exception"
             /\ console = <<<<"error", "UnexpectedError">>>>
             /\ pc # "raised"
             /\ (pc = "done" => ret = {1})

C6_Witness ==
    /\ pc = "done"
    /\ requests = <<>>
    /\ console = <<<<"error", "UnexpectedError">>>>
    /\ ret = {1}


\* the array of meanings of an entry, its definitions and label as documented
MeaningsOf(entry) ==
    IF ~IsObj(entry) THEN <<>>
    ELSE LET m == Get(entry, "meanings", List(<<>>))
         IN  IF IsList(m) THEN Val(m) ELSE <<>>

DefinitionsOf(meaning) ==
    IF ~IsObj(meaning) THEN <<>>
    ELSE LET d == Get(meaning, "definitions", List(<<>>))
         IN  IF IsList(d) THEN Val(d) ELSE <<>>

LabelOf(meaning) ==
    IF "partOfSpeech" \in Keys(meaning)
    THEN Val(meaning)["partOfSpeech"][2]
    ELSE DefaultPartOfSpeech

TextOf(definition_data) ==
    IF "definition" \in Keys(definition_data)
    THEN Val(definition_data)["definition"][2]
    ELSE DefaultDefinition

HasExample(definition_data) ==
    /\ "example" \in Keys(definition_data)
    /\ Val(definition_data)["example"] \notin {Null, Str(<<>>)}

YieldsPanel(meaning) == IsObj(meaning) /\ Len(DefinitionsOf(meaning)) > 0

PanelMeaningsOfEntry(entry) == SelectSeq(MeaningsOf(entry), YieldsPanel)

\* the meanings that have at least one definition, over all entries in order
RECURSIVE PanelMeanings(_)
PanelMeanings(entries) ==
    IF entries = <<>> THEN <<>>
    ELSE PanelMeaningsOfEntry(Head(entries)) \o PanelMeanings(Tail(entries))

RECURSIVE CountPanelMeanings(_)
CountPanelMeanings(entries) ==
    IF entries = <<>> THEN 0
    ELSE Cardinality({j \in 1..Len(MeaningsOf(Head(entries))) :
                         Len(DefinitionsOf(MeaningsOf(Head(entries))[j])) > 0})
         + CountPanelMeanings(Tail(entries))

RECURSIVE CountMeanings(_)
CountMeanings(entries) ==
    IF entries = <<>> THEN 0
    ELSE Len(MeaningsOf(Head(entries))) + CountMeanings(Tail(entries))

SameLetters(t, p) ==
    /\ Len(t) = Len(p)
    /\ \A i \in 1..Len(t) : LowerOf(t[i]) = LowerOf(p[i])

NoLower(c) == \A i \in 1..Len(Lowers) : Lowers[i] # c
NoUpper(c) == \A i \in 1..Len(Uppers) : Uppers[i] # c

IsUpperOf(t, p) == SameLetters(t, p) /\ \A i \in 1..Len(t) : NoLower(t[i])

IsCapitalizedOf(t, p) ==
    /\ SameLetters(t, p)
    /\ \A i \in 1..Len(t) : IF i = 1 THEN NoLower(t[i]) ELSE NoUpper(t[i])

\* C7: display_word_data prints exactly one header panel, titled "Dictionary
\* search" and holding the uppercased word, then exactly one panel per
\* meaning that has at least one definition, titled with the capitalized
\* part-of-speech label; a meaning with empty or missing definitions yields
\* no panel; the panel count is 1 + the number of such meanings.
C7_OnePanelPerMeaningWithDefinitions ==
    Displayed =>
        /\ Len(Headers) = 1
        /\ console[1][1] = "header"
        /\ console[1][2] = <<"Dictionary search">>
        /\ IsUpperOf(console[1][3], word)
        /\ Len(Headers) + Len(Panels) = 1 + CountPanelMeanings(Val(data))
        /\ Len(Panels) = Len(PanelMeanings(Val(data)))
        /\ \A k \in 1..Len(Panels) :
              IsCapitalizedOf(Panels[k][2], LabelOf(PanelMeanings(Val(data))[k]))

C7_Witness ==
    /\ Displayed
    /\ Len(Val(data)) = 2
    /\ Len(Panels) = 2
    /\ CountMeanings(Val(data)) = 3
    /\ \E k \in 1..2 : Panels[k][2] = <<"N", "o", "u", "n">>

IsText(segment) == segment[1] = "text"
IsNumber(segment) == segment[1] = "number"
IsExample(segment) == segment[1] = "example"

\* the definition texts of a printed panel, in the order printed
PrintedTexts(panel) ==
    LET texts == SelectSeq(panel[3], IsText)
    IN  [k \in 1..Len(texts) |-> texts[k][2]]

\* what is left of a printed item when only its order-relevant part is kept
Outline(item) ==
    IF IsPanel(item) THEN <<"panel", PrintedTexts(item)>> ELSE item

MeaningOutline(meaning) ==
    <<"panel", [k \in 1..Len(DefinitionsOf(meaning)) |->
                   TextOf(DefinitionsOf(meaning)[k])]>>

EntryOutline(entry) ==
    LET shown == PanelMeaningsOfEntry(entry)
    IN  (IF "phonetic" \in Keys(entry)
            /\ Val(entry)["phonetic"] \notin {Null, Str(<<>>)}
         THEN <<<<"phonetic", Val(entry)["phonetic"][2]>>>>
         ELSE <<>>)
        \o [k \in 1..Len(shown) |-> MeaningOutline(shown[k])]

\* the input flattened in array order: entries, then meanings, then definitions
RECURSIVE InputOutline(_)
InputOutline(entries) ==
    IF entries = <<>> THEN <<>>
    ELSE EntryOutline(Head(entries)) \o InputOutline(Tail(entries))

\* C8: after the header, the output mirrors the input order exactly: all
\* output of entry i (phonetic line, then its panels in the order of its
\* meanings, definitions in array order inside each panel) precedes that of
\* entry i+1; nothing is sorted, merged or dropped.
C8_OutputMirrorsInputOrder ==
    Displayed =>
        /\ Len(console) = 1 + Len(InputOutline(Val(data)))
        /\ \A i \in 2..Len(console) :
              Outline(console[i]) = InputOutline(Val(data))[i - 1]

C8_Witness ==
    /\ Displayed
    /\ Len(Val(data)) = 2
    /\ Len(Panels) = 4
    /\ \A k \in 1..4 : Len(PrintedTexts(Panels[k])) = 2
    /\ PrintedTexts(Panels[1]) # PrintedTexts(Panels[2])
    /\ Panels[1][2] = Panels[4][2]


\* the body of a printed panel is the one documented for the meaning
PanelMatches(panel, meaning) ==
    LET body == panel[3]
        defs == DefinitionsOf(meaning)
        numbers == SelectSeq(body, IsNumber)
    IN  /\ Len(body) >= 1
        /\ body[1][1] = "heading"
        /\ IsCapitalizedOf(body[1][2], LabelOf(meaning))
        /\ \A i \in 2..Len(body) : IsNumber(body[i]) \/ IsText(body[i])
                                      \/ IsExample(body[i])
        /\ Len(numbers) = Len(defs)
        /\ \A k \in 1..Len(numbers) : numbers[k][2] = k
        /\ \A i \in 2..Len(body) :
              /\ IsNumber(body[i]) =>
                    /\ i < Len(body)
                    /\ IsText(body[i + 1])
                    /\ body[i][2] \in 1..Len(defs)
                    /\ body[i + 1][2] = TextOf(defs[body[i][2]])
                    /\ HasExample(defs[body[i][2]]) =>
                          /\ i + 1 < Len(body)
                          /\ IsExample(body[i + 2])
              /\ IsText(body[i]) => IsNumber(body[i - 1])
              /\ IsExample(body[i]) =>
                    /\ i > 3
                    /\ IsText(body[i - 1])
                    /\ IsNumber(body[i - 2])
                    /\ body[i - 2][2] \in 1..Len(defs)
                    /\ HasExample(defs[body[i - 2][2]])
                    /\ body[i][2] = <<"\"">>
                          \o Format(Val(defs[body[i - 2][2]])["example"])
                          \o <<"\"">>

\* C9: each panel body starts with the capitalized part-of-speech heading,
\* then holds the definitions numbered 1..n without gap or repeat, each
\* number immediately before its definition's text, the numbering starting
\* at 1 in every panel, and an example line directly after the text of
\* exactly those definitions that have an example.
C9_PanelBodyNumbering ==
    (pc \in {"entry", "meaning", "done", "raised"} /\ NonEmptyList(data)) =>
        \A k \in 1..Len(Panels) :
            /\ k <= Len(PanelMeanings(Val(data)))
            /\ PanelMatches(Panels[k], PanelMeanings(Val(data))[k])

C9_Witness ==
    /\ Displayed
    /\ Len(Panels) = 2
    /\ \E k \in 1..2 :
          /\ Len(SelectSeq(Panels[k][3], IsNumber)) = 2
          /\ Len(SelectSeq(Panels[k][3], IsExample)) = 1
          /\ IsExample(Panels[k][3][Len(Panels[k][3])])
    /\ \A k \in 1..2 : Panels[k][3][2] = <<"number", 1>>

\* C10: panels and error messages exclude each other within one invocation:
\* if the header or a meaning panel was printed then no error message was and
\* the exit code is 0; if an error message was printed then no panel and no
\* phonetic line was and the exit code is 1.
C10_PanelsExcludeErrors ==
    Terminated =>
        /\ (Headers # <<>> \/ Panels # <<>>) => (Errors = <<>> /\ ret = {0})
        /\ Errors # <<>> =>
              /\ Headers = <<>>
              /\ Panels = <<>>
              /\ PhoneticLines = <<>>
              /\ ret = {1}

=============================================================================
